---- MODULE Spec2Model ----
(***************************************************************************)
(* A model of beanie's Document entity (beanie/odm/documents.py), of the   *)
(* aggregation pipeline assembly (beanie/odm/queries/aggregation.py), of   *)
(* the collection they operate on and of the array query operators         *)
(* (beanie/odm/operators/find/array.py).                                   *)
(*                                                                         *)
(* The collection is a sequence of raw records in natural (insertion)      *)
(* order.  Every store call together with the local code around it is one  *)
(* atomic step; an operation that awaits several store calls               *)
(* (replace_many, update) is one step per store call, and any other        *)
(* operation may run between two of its steps.                             *)
(***************************************************************************)
EXTENDS Integers, Sequences, FiniteSets

\* ------------------------------------------------------------------ bounds
MaxId == 2        \* identities the store generates
MaxInst == 2      \* Document instances the application holds
MaxBatch == 2     \* longest list handed to insert_many / replace_many
MaxStages == 2    \* longest caller-supplied aggregation pipeline
MaxValues == 2    \* longest list handed to All
MaxNum == 2       \* largest length handed to Size
MaxQueries == 2   \* evaluations of operator.query on one operator object

\* --------------------------------------------------------------- constants
NoId == 0         \* id: Optional[PydanticObjectId] = None

Ids == 1..MaxId
Slots == 1..MaxInst
Titles == {"a", "b"}
Missing == "missing"          \* a raw record without the field `title`
NoSession == "none"           \* session=None
Sessions == {NoSession, "s1"}
Unbound == {NoSession}        \* calls made without a session
\* caller-supplied pipeline stages
Stages == {[stage |-> "$group", arg |-> {"g"}], [stage |-> "$match", arg |-> {"m"}]}
NoModel == "None"             \* projection_model=None
Models == {NoModel, "P", "Q"} \* projection_model: None or a result schema
Filters == {{}, {"f"}}        \* find_query: {} or a non-empty filter
Fields == {"results", "title"} \* field paths: Sample.results, Note.title
Results == {80, 85}           \* elements of Sample.results
\* ElemMatch expressions: {"$gt": 80}, {"$lt": 85}, {}
Expressions == {[o \in {"$gt"} |-> 80], [o \in {"$lt"} |-> 85], [o \in {} |-> 0]}

VARIABLES
    CollectionMeta,  \* the class attribute set by init_collection
    store,           \* the collection: Seq of raw records [_id, title]
    nextId,          \* the next identity the store generates
    inst,            \* the Document instances: slot -> [live, id, title]
    rm,              \* the replace_many call in flight
    up,              \* the update call in flight
    last,            \* the operation that finished (or raised) last
    agg,             \* the aggregation query object and what it sent
    operator,        \* the array operator object: its class and attributes
    fragments        \* what operator.query returned, one per evaluation

vars == <<CollectionMeta, store, nextId, inst, rm, up, last, agg, operator, fragments>>

\* ------------------------------------------------------------ sequences
Range(s) == {s[k] : k \in 1..Len(s)}

SeqsUpTo(S, n) == UNION {[1..k -> S] : k \in 0..n}

NonEmptySeqsUpTo(S, n) == UNION {[1..k -> S] : k \in 1..n}

\* ------------------------------------------------------- the collection
StoreIds(st) == {st[k]._id : k \in 1..Len(st)}

\* the record a find_one({"_id": id}) matches (precondition: id is stored)
Lookup(st, id) == st[CHOOSE k \in 1..Len(st) : st[k]._id = id]

\* the matched records' number: count_documents({"_id": {"$in": ids}})
count_documents_in(st, ids) ==
    Cardinality({k \in 1..Len(st) : st[k]._id \in Range(ids)})

\* delete_many({"_id": {"$in": ids}})
delete_many_in(st, ids) ==
    LET keep(r) == r._id \notin Range(ids) IN SelectSeq(st, keep)

\* delete_one({"_id": id})
delete_one(st, id) ==
    LET keep(r) == r._id # id IN SelectSeq(st, keep)

\* insert_one(doc): the store generates the identity
insert_one(st, nid, doc) == Append(st, [_id |-> nid, title |-> doc.title])

\* insert_many(docs) of records without "_id": one generated identity each
RECURSIVE insert_many_fresh(_, _, _)
insert_many_fresh(st, nid, docs) ==
    IF docs = <<>> THEN st
    ELSE insert_many_fresh(insert_one(st, nid, Head(docs)), nid + 1, Tail(docs))

\* insert_many(docs) of records that carry their "_id" (ordered: the first
\* duplicate key ends the batch with BulkWriteError)
RECURSIVE insert_many_keep(_, _)
insert_many_keep(st, docs) ==
    IF docs = <<>> THEN [store |-> st, outcome |-> "ok"]
    ELSE IF Head(docs)._id \in StoreIds(st)
    THEN [store |-> st, outcome |-> "BulkWriteError"]
    ELSE insert_many_keep(Append(st, Head(docs)), Tail(docs))

\* update_one({"_id": id}, mod): $set or $unset of `title` on the match
update_one(st, id, mod) ==
    [k \in 1..Len(st) |->
        IF st[k]._id = id
        THEN [st[k] EXCEPT !.title = IF mod.op = "set" THEN mod.title ELSE Missing]
        ELSE st[k]]

\* replace_one({"_id": id}, doc): the match keeps its place and its "_id"
replace_one(st, id, doc) ==
    [k \in 1..Len(st) |->
        IF st[k]._id = id THEN [_id |-> id, title |-> doc.title] ELSE st[k]]

\* ----------------------------------------------------- the schema mapping
NoEntity == [live |-> FALSE, id |-> NoId, title |-> Missing]

\* a dict that leaves `title` out instead of `id`
dict_exclude_title(e) == [title |-> Missing]

\* document.dict(by_alias=True, exclude={"id"})
dict_exclude_id(e) == [title |-> e.title]

\* document.dict(by_alias=True)
dict_by_alias(e) == [_id |-> e.id, title |-> e.title]

\* whether cls.parse_obj(raw) raises ValidationError: `title: str` is required
ValidationError(raw) == raw.title = Missing

\* cls.parse_obj(raw), for a raw record that validates
parse_obj(raw) == [live |-> TRUE, id |-> raw._id, title |-> raw.title]

\* ------------------------------------------------------------ operations
Call(name, s) == [call |-> name, session |-> s]

NoInspection == [status |-> "OK", errors |-> <<>>]

\* what the step taken last was and how it ended: the operation, its outcome
\* ("pending": more store calls follow), its session, the store calls issued
\* on its behalf so far, the identities it was called with (self.id, the id
\* asked for, ids_list) and the entity it returned or was given
Done(op, outcome, s, calls) ==
    [op |-> op, outcome |-> outcome, session |-> s,
     calls |-> calls, ids |-> <<>>, entity |-> NoEntity,
     inspection |-> NoInspection]

IdleRm == [pc |-> "idle", docs |-> <<>>, ids_list |-> <<>>,
           session |-> NoSession, deleted |-> 0, calls |-> <<>>]

IdleUp == [pc |-> "idle", inst |-> 0, session |-> NoSession, calls |-> <<>>]

IdleAgg == [built |-> FALSE, find_query |-> {}, aggregation_pipeline |-> <<>>,
            projection_model |-> NoModel, session |-> NoSession,
            sent |-> <<>>, executed |-> FALSE]

NoOperator == [cls |-> "None"]

Init ==
    /\ CollectionMeta = "None"
    /\ store = <<>>
    /\ nextId = 1
    /\ inst = [i \in Slots |-> NoEntity]
    /\ rm = IdleRm
    /\ up = IdleUp
    /\ last = Done("start", "ok", NoSession, <<>>)
    /\ agg = IdleAgg
    /\ operator = NoOperator
    /\ fragments = <<>>

\* getattr(cls, "CollectionMeta", None) is None
NotInitialized == CollectionMeta = "None"

\* the lowest slot no instance lives in (0: none is free)
FreeSlot ==
    IF \E i \in Slots : ~inst[i].live
    THEN CHOOSE i \in Slots : ~inst[i].live /\ \A j \in 1..(i - 1) : inst[j].live
    ELSE 0

init_collection ==
    /\ CollectionMeta' = "meta"
    /\ last' = Done("init_collection", "ok", NoSession, <<>>)
    /\ UNCHANGED <<operator, fragments, store, nextId, inst, rm, up, agg>>

\* the field values handed to the constructor: Note(title=t), or Note() when
\* t is Missing
kwargs(t) == [NoEntity EXCEPT !.title = t]

\* a constructor that validates and never looks the collection up
Document_init_NoLookup(t) ==
    /\ FreeSlot # 0
    /\ IF ValidationError(kwargs(t))
       THEN /\ last' = [Done("__init__", "ValidationError", NoSession, <<>>)
                        EXCEPT !.entity = kwargs(t)]
            /\ UNCHANGED inst
       ELSE /\ inst' = [inst EXCEPT ![FreeSlot] = [live |-> TRUE, id |-> NoId, title |-> t]]
            /\ last' = [Done("__init__", "ok", NoSession, <<>>)
                        EXCEPT !.entity = kwargs(t)]
    /\ UNCHANGED <<operator, fragments, CollectionMeta, store, nextId, rm, up, agg>>

\* Note(title=t): the application constructs an instance; line 50 validates
\* the values, line 51 looks the collection up
Document_init(t) ==
    /\ FreeSlot # 0
    /\ IF ValidationError(kwargs(t))
       THEN /\ last' = [Done("__init__", "ValidationError", NoSession, <<>>)
                        EXCEPT !.entity = kwargs(t)]
            /\ UNCHANGED inst
       ELSE IF NotInitialized
       THEN /\ last' = [Done("__init__", "CollectionWasNotInitialized", NoSession, <<>>)
                        EXCEPT !.entity = kwargs(t)]
            /\ UNCHANGED inst
       ELSE /\ inst' = [inst EXCEPT ![FreeSlot] = [live |-> TRUE, id |-> NoId, title |-> t]]
            /\ last' = [Done("__init__", "ok", NoSession, <<>>)
                        EXCEPT !.entity = kwargs(t)]
    /\ UNCHANGED <<operator, fragments, CollectionMeta, store, nextId, rm, up, agg>>

\* insert without the check of line 69
insert_NoIdCheck(i, s) ==
    /\ inst[i].live
    /\ ~NotInitialized
    /\ nextId <= MaxId
    /\ store' = insert_one(store, nextId, dict_exclude_id(inst[i]))
    /\ nextId' = nextId + 1
    /\ inst' = [inst EXCEPT ![i].id = nextId]
    /\ last' = [Done("insert", "ok", s, <<Call("insert_one", s)>>)
                EXCEPT !.ids = <<inst[i].id>>]
    /\ UNCHANGED <<operator, fragments, CollectionMeta, rm, up, agg>>

insert(i, s) ==
    /\ inst[i].live
    /\ IF inst[i].id # NoId
       THEN /\ last' = [Done("insert", "DocumentAlreadyCreated", s, <<>>)
                        EXCEPT !.ids = <<inst[i].id>>]
            /\ UNCHANGED <<store, nextId, inst>>
       ELSE IF NotInitialized
       THEN /\ last' = [Done("insert", "CollectionWasNotInitialized", s, <<>>)
                        EXCEPT !.ids = <<inst[i].id>>]
            /\ UNCHANGED <<store, nextId, inst>>
       ELSE /\ nextId <= MaxId
            /\ store' = insert_one(store, nextId, dict_exclude_id(inst[i]))
            /\ nextId' = nextId + 1
            /\ inst' = [inst EXCEPT ![i].id = nextId]
            /\ last' = [Done("insert", "ok", s, <<Call("insert_one", s)>>)
                        EXCEPT !.ids = <<inst[i].id>>]
    /\ UNCHANGED <<operator, fragments, CollectionMeta, rm, up, agg>>

\* insert_many, lines 117-125: the records handed to the store
documents_list(documents, keep_ids) ==
    [k \in 1..Len(documents) |->
        IF keep_ids THEN dict_by_alias(inst[documents[k]])
        ELSE dict_exclude_id(inst[documents[k]])]

\* insert_many(documents, keep_ids=False, session=s); the driver refuses an
\* empty list ("documents must be a non-empty list") and sends nothing
insert_many(ds, s) ==
    /\ \A k \in 1..Len(ds) : inst[ds[k]].live
    /\ IF NotInitialized
       THEN /\ last' = Done("insert_many", "CollectionWasNotInitialized", s, <<>>)
            /\ UNCHANGED <<store, nextId>>
       ELSE IF ds = <<>>
       THEN /\ last' = Done("insert_many", "TypeError", s, <<>>)
            /\ UNCHANGED <<store, nextId>>
       ELSE /\ nextId + Len(ds) - 1 <= MaxId
            /\ store' = insert_many_fresh(store, nextId, documents_list(ds, FALSE))
            /\ nextId' = nextId + Len(ds)
            /\ last' = Done("insert_many", "ok", s, <<Call("insert_many", s)>>)
    /\ UNCHANGED <<operator, fragments, CollectionMeta, inst, rm, up, agg>>

\* awaiting find_one({"_id": id}): None, ValidationError or the mapped entity
find_one(st, id) ==
    IF id \notin StoreIds(st) THEN [outcome |-> "None", entity |-> NoEntity]
    ELSE IF ValidationError(Lookup(st, id))
    THEN [outcome |-> "ValidationError", entity |-> NoEntity]
    ELSE [outcome |-> "ok", entity |-> parse_obj(Lookup(st, id))]

get(id, s) ==
    LET r == find_one(store, id)
    IN  /\ IF NotInitialized
           THEN last' = Done("get", "CollectionWasNotInitialized", s, <<>>)
           ELSE last' = [Done("get", r.outcome, s, <<Call("find_one", s)>>)
                         EXCEPT !.ids = <<id>>, !.entity = r.entity]
        /\ UNCHANGED <<operator, fragments, CollectionMeta, store, nextId, inst, rm, up, agg>>

\* replace without the check of line 282
replace_NoIdCheck(i, s) ==
    /\ inst[i].live
    /\ store' = replace_one(store, inst[i].id, dict_by_alias(inst[i]))
    /\ last' = [Done("replace", "ok", s, <<Call("replace_one", s)>>)
                EXCEPT !.ids = <<inst[i].id>>]
    /\ UNCHANGED <<operator, fragments, CollectionMeta, nextId, inst, rm, up, agg>>

replace(i, s) ==
    /\ inst[i].live
    /\ IF inst[i].id = NoId
       THEN /\ last' = [Done("replace", "DocumentWasNotSaved", s, <<>>)
                        EXCEPT !.ids = <<inst[i].id>>]
            /\ UNCHANGED store
       ELSE /\ store' = replace_one(store, inst[i].id, dict_by_alias(inst[i]))
            /\ last' = [Done("replace", "ok", s, <<Call("replace_one", s)>>)
                        EXCEPT !.ids = <<inst[i].id>>]
    /\ UNCHANGED <<operator, fragments, CollectionMeta, nextId, inst, rm, up, agg>>

\* replace_many rejecting only when none of the identities is stored
replace_many_count_NoneExists(ds, s) ==
    LET ids_list == [k \in 1..Len(ds) |-> inst[ds[k]].id]
        counted == Call("count_documents", NoSession)
    IN  /\ rm.pc = "idle"
        /\ \A k \in 1..Len(ds) : inst[ds[k]].live
        /\ IF count_documents_in(store, ids_list) = 0
           THEN /\ last' = [Done("replace_many", "ReplaceError", s, <<counted>>)
                             EXCEPT !.ids = ids_list]
                /\ UNCHANGED rm
           ELSE /\ rm' = [pc |-> "delete", docs |-> ds, ids_list |-> ids_list,
                          session |-> s, deleted |-> 0, calls |-> <<counted>>]
                /\ last' = [Done("replace_many:count", "pending", s, <<counted>>)
                             EXCEPT !.ids = ids_list]
        /\ UNCHANGED <<operator, fragments, CollectionMeta, store, nextId, inst, up, agg>>

\* replace_many, lines 303-307: ids_list, the existence count, the rejection
replace_many_count(ds, s) ==
    LET ids_list == [k \in 1..Len(ds) |-> inst[ds[k]].id]
        counted == Call("count_documents", NoSession)
    IN  /\ rm.pc = "idle"
        /\ \A k \in 1..Len(ds) : inst[ds[k]].live
        /\ IF count_documents_in(store, ids_list) # Len(ids_list)
           THEN /\ last' = [Done("replace_many", "ReplaceError", s, <<counted>>)
                             EXCEPT !.ids = ids_list]
                /\ UNCHANGED rm
           ELSE /\ rm' = [pc |-> "delete", docs |-> ds, ids_list |-> ids_list,
                          session |-> s, deleted |-> 0, calls |-> <<counted>>]
                /\ last' = [Done("replace_many:count", "pending", s, <<counted>>)
                             EXCEPT !.ids = ids_list]
        /\ UNCHANGED <<operator, fragments, CollectionMeta, store, nextId, inst, up, agg>>

\* the delete and the re-insert as one store step (a transactional replace)
replace_many_delete_Atomic ==
    LET calls == Append(rm.calls, Call("delete_many", rm.session))
        left == delete_many_in(store, rm.ids_list)
    IN  /\ rm.pc = "delete"
        /\ store' = insert_many_keep(left, documents_list(rm.docs, TRUE)).store
        /\ rm' = [rm EXCEPT !.pc = "insert", !.calls = calls,
                            !.deleted = Len(store) - Len(left)]
        /\ last' = [Done("replace_many:delete", "pending", rm.session, calls)
                     EXCEPT !.ids = rm.ids_list]
        /\ UNCHANGED <<operator, fragments, CollectionMeta, nextId, inst, up, agg>>

\* replace_many, line 308: the delete of the matched set
replace_many_delete ==
    LET calls == Append(rm.calls, Call("delete_many", rm.session))
        left == delete_many_in(store, rm.ids_list)
    IN  /\ rm.pc = "delete"
        /\ store' = left
        /\ rm' = [rm EXCEPT !.pc = "insert", !.calls = calls,
                            !.deleted = Len(store) - Len(left)]
        /\ last' = [Done("replace_many:delete", "pending", rm.session, calls)
                     EXCEPT !.ids = rm.ids_list]
        /\ UNCHANGED <<operator, fragments, CollectionMeta, nextId, inst, up, agg>>

\* replace_many, line 309: insert_many(documents, keep_ids=True)
replace_many_insert ==
    LET calls == Append(rm.calls, Call("insert_many", rm.session))
        r == insert_many_keep(store, documents_list(rm.docs, TRUE))
    IN  /\ rm.pc = "insert"
        /\ store' = r.store
        /\ rm' = IdleRm
        /\ last' = [Done("replace_many", r.outcome, rm.session, calls)
                     EXCEPT !.ids = rm.ids_list]
        /\ UNCHANGED <<operator, fragments, CollectionMeta, nextId, inst, up, agg>>

Mods == {[op |-> "set", title |-> v] : v \in Titles}
            \cup {[op |-> "unset", title |-> Missing]}

\* update, line 321: find_one({"_id": self.id}).update(mod, session=s)
update(i, mod, s) ==
    LET calls == <<Call("update_one", s)>>
    IN  /\ up.pc = "idle"
        /\ inst[i].live
        /\ store' = update_one(store, inst[i].id, mod)
        /\ up' = [pc |-> "sync", inst |-> i, session |-> s, calls |-> calls]
        /\ last' = Done("update:update_one", "pending", s, calls)
        /\ UNCHANGED <<operator, fragments, CollectionMeta, nextId, inst, rm, agg>>

\* a _sync that fetches the record and sets no field from it
_sync_SetsNothing(e, st) ==
    LET new_instance == find_one(st, e.id)
    IN  IF new_instance.outcome = "None" THEN [outcome |-> "TypeError", entity |-> e]
        ELSE IF new_instance.outcome = "ValidationError"
        THEN [outcome |-> "ValidationError", entity |-> e]
        ELSE [outcome |-> "ok", entity |-> e]

\* _sync: new_instance = get(self.id), then every field is set from it;
\* dict(None) raises TypeError when the record is gone
_sync(e, st) ==
    LET new_instance == find_one(st, e.id)
    IN  IF new_instance.outcome = "None" THEN [outcome |-> "TypeError", entity |-> e]
        ELSE IF new_instance.outcome = "ValidationError"
        THEN [outcome |-> "ValidationError", entity |-> e]
        ELSE [outcome |-> "ok",
              entity |-> [e EXCEPT !.id = new_instance.entity.id,
                                   !.title = new_instance.entity.title]]

\* update, line 322: await self._sync()
update_sync ==
    LET calls == Append(up.calls, Call("find_one", NoSession))
        r == _sync(inst[up.inst], store)
    IN  /\ up.pc = "sync"
        /\ inst' = [inst EXCEPT ![up.inst] = r.entity]
        /\ up' = IdleUp
        /\ last' = Done("update", r.outcome, up.session, calls)
        /\ UNCHANGED <<operator, fragments, CollectionMeta, store, nextId, rm, agg>>

delete(i, s) ==
    /\ inst[i].live
    /\ store' = delete_one(store, inst[i].id)
    /\ last' = Done("delete", "ok", s, <<Call("delete_one", s)>>)
    /\ UNCHANGED <<operator, fragments, CollectionMeta, nextId, inst, rm, up, agg>>

delete_all(s) ==
    /\ IF NotInitialized
       THEN /\ last' = Done("delete_all", "CollectionWasNotInitialized", s, <<>>)
            /\ UNCHANGED store
       ELSE /\ store' = <<>>
            /\ last' = Done("delete_all", "ok", s, <<Call("delete_many", s)>>)
    /\ UNCHANGED <<operator, fragments, CollectionMeta, nextId, inst, rm, up, agg>>

\* a loop that ends at the first record that fails validation
RECURSIVE inspect_loop_StopsAtFirst(_, _)
inspect_loop_StopsAtFirst(cursor, inspection_result) ==
    IF cursor = <<>> THEN inspection_result
    ELSE LET json_document == Head(cursor)
         IN  IF ValidationError(json_document)
             THEN [status |-> "FAIL",
                   errors |-> Append(inspection_result.errors, json_document._id)]
             ELSE inspect_loop_StopsAtFirst(Tail(cursor), inspection_result)

\* the loop of inspect_collection over the cursor of find({})
RECURSIVE inspect_loop(_, _)
inspect_loop(cursor, inspection_result) ==
    IF cursor = <<>> THEN inspection_result
    ELSE LET json_document == Head(cursor)
         IN  IF ValidationError(json_document)
             THEN inspect_loop(Tail(cursor),
                      [status |-> "FAIL",
                       errors |-> Append(inspection_result.errors, json_document._id)])
             ELSE inspect_loop(Tail(cursor), inspection_result)

inspect_collection(s) ==
    /\ IF NotInitialized
       THEN last' = Done("inspect_collection", "CollectionWasNotInitialized", s, <<>>)
       ELSE last' = [Done("inspect_collection", "ok", s, <<Call("find", s)>>)
                     EXCEPT !.inspection = inspect_loop(store, NoInspection)]
    /\ UNCHANGED <<operator, fragments, CollectionMeta, store, nextId, inst, rm, up, agg>>

\* OldNote(name=...).insert(): another schema writes to the same collection
\* "notes"; its record has no `title`
OldNote_insert ==
    /\ ~NotInitialized
    /\ nextId <= MaxId
    /\ store' = insert_one(store, nextId, [title |-> Missing])
    /\ nextId' = nextId + 1
    /\ last' = Done("OldNote.insert", "ok", NoSession, <<Call("insert_one", NoSession)>>)
    /\ UNCHANGED <<operator, fragments, CollectionMeta, inst, rm, up, agg>>

\* ----------------------------------------------------------- aggregation
\* get_projection(model): the projection of the result schema's fields
get_projection(model) == IF model = "P" THEN {"title"} ELSE {"_id", "title"}

AggregationQuery_init(find_query, aggregation_pipeline, projection_model) ==
    /\ agg' = [built |-> TRUE, find_query |-> find_query,
               aggregation_pipeline |-> aggregation_pipeline,
               projection_model |-> projection_model, session |-> NoSession,
               sent |-> <<>>, executed |-> FALSE]
    /\ last' = Done("AggregationQuery", "ok", NoSession, <<>>)
    /\ UNCHANGED <<operator, fragments, CollectionMeta, store, nextId, inst, rm, up>>

\* set_session(session) on the query object
set_session(s) ==
    /\ agg.built /\ ~agg.executed
    /\ agg' = [agg EXCEPT !.session = s]
    /\ last' = Done("set_session", "ok", s, <<>>)
    /\ UNCHANGED <<operator, fragments, CollectionMeta, store, nextId, inst, rm, up>>

\* Document.aggregate(pipeline, model, session): find_all().aggregate(...)
aggregate(aggregation_pipeline, aggregation_model, s) ==
    /\ agg' = [built |-> TRUE, find_query |-> {},
               aggregation_pipeline |-> aggregation_pipeline,
               projection_model |-> aggregation_model, session |-> s,
               sent |-> <<>>, executed |-> FALSE]
    /\ last' = Done("aggregate", "pending", s, <<>>)
    /\ UNCHANGED <<operator, fragments, CollectionMeta, store, nextId, inst, rm, up>>

\* a pipeline that gets its $match stage whatever the filter is
get_aggregation_pipeline_AlwaysMatch(q) ==
    LET match_pipeline == <<[stage |-> "$match", arg |-> q.find_query]>>
        projection_pipeline ==
            IF q.projection_model # NoModel
            THEN <<[stage |-> "$project", arg |-> get_projection(q.projection_model)]>>
            ELSE <<>>
    IN  match_pipeline \o q.aggregation_pipeline \o projection_pipeline

get_aggregation_pipeline(q) ==
    LET match_pipeline ==
            IF q.find_query # {}
            THEN <<[stage |-> "$match", arg |-> q.find_query]>> ELSE <<>>
        projection_pipeline ==
            IF q.projection_model # NoModel
            THEN <<[stage |-> "$project", arg |-> get_projection(q.projection_model)]>>
            ELSE <<>>
    IN  match_pipeline \o q.aggregation_pipeline \o projection_pipeline

motor_cursor ==
    /\ agg.built /\ ~agg.executed
    /\ IF NotInitialized
       THEN /\ last' = Done("motor_cursor", "CollectionWasNotInitialized", agg.session, <<>>)
            /\ UNCHANGED agg
       ELSE /\ agg' = [agg EXCEPT !.sent = get_aggregation_pipeline(agg),
                                  !.executed = TRUE]
            /\ last' = Done("motor_cursor", "ok", agg.session,
                            <<Call("aggregate", agg.session)>>)
    /\ UNCHANGED <<operator, fragments, CollectionMeta, store, nextId, inst, rm, up>>

\* -------------------------------------------------------- array operators
\* All(field, values)
All(field, values) ==
    /\ operator' = [cls |-> "All", field |-> field, values |-> values]
    /\ fragments' = <<>>
    /\ last' = Done("All", "ok", NoSession, <<>>)
    /\ UNCHANGED <<CollectionMeta, store, nextId, inst, rm, up, agg>>

\* ElemMatch(field, expression)
ElemMatch(field, expression) ==
    /\ operator' = [cls |-> "ElemMatch", field |-> field, expression |-> expression]
    /\ fragments' = <<>>
    /\ last' = Done("ElemMatch", "ok", NoSession, <<>>)
    /\ UNCHANGED <<CollectionMeta, store, nextId, inst, rm, up, agg>>

\* Size(field, num)
Size(field, num) ==
    /\ operator' = [cls |-> "Size", field |-> field, num |-> num]
    /\ fragments' = <<>>
    /\ last' = Done("Size", "ok", NoSession, <<>>)
    /\ UNCHANGED <<CollectionMeta, store, nextId, inst, rm, up, agg>>

\* {key: value}
dict(key, value) == [k \in {key} |-> value]

\* a query property where ElemMatch renders as All does
query_ElemMatchAsAll(self) ==
    CASE self.cls = "All" -> dict(self.field, dict("$all", self.values))
      [] self.cls = "ElemMatch" -> dict(self.field, dict("$all", self.expression))
      [] self.cls = "Size" -> dict(self.field, dict("$size", self.num))

\* the query property of the operator's class
query(self) ==
    CASE self.cls = "All" -> dict(self.field, dict("$all", self.values))
      [] self.cls = "ElemMatch" -> dict(self.field, dict("$elemMatch", self.expression))
      [] self.cls = "Size" -> dict(self.field, dict("$size", self.num))

\* operator.query: the application renders the operator
render ==
    /\ operator # NoOperator
    /\ Len(fragments) < MaxQueries
    /\ fragments' = Append(fragments, query(operator))
    /\ last' = Done("query", "ok", NoSession, <<>>)
    /\ UNCHANGED <<operator, CollectionMeta, store, nextId, inst, rm, up, agg>>

\* operator[item]: BaseOperator.__getitem__ evaluates self.query and looks
\* item up in it
__getitem__(item) ==
    /\ operator # NoOperator
    /\ Len(fragments) < MaxQueries
    /\ fragments' = Append(fragments, query(operator))
    /\ last' = Done("__getitem__",
                    IF item \in DOMAIN query(operator) THEN "ok" ELSE "KeyError",
                    NoSession, <<>>)
    /\ UNCHANGED <<operator, CollectionMeta, store, nextId, inst, rm, up, agg>>

\* ------------------------------------------------------- specifications
Batches == NonEmptySeqsUpTo(Slots, MaxBatch)

\* every Document operation, with or without a session
Next ==
    \/ init_collection
    \/ \E t \in Titles : Document_init(t)
    \/ \E i \in Slots, s \in Sessions : insert(i, s)
    \/ \E ds \in Batches, s \in Sessions : insert_many(ds, s)
    \/ \E id \in Ids \cup {NoId}, s \in Sessions : get(id, s)
    \/ \E i \in Slots, s \in Sessions : replace(i, s)
    \/ \E ds \in Batches, s \in Sessions : replace_many_count(ds, s)
    \/ replace_many_delete
    \/ replace_many_insert
    \/ \E i \in Slots, mod \in Mods, s \in Sessions : update(i, mod, s)
    \/ update_sync
    \/ \E i \in Slots, s \in Sessions : delete(i, s)
    \/ \E s \in Sessions : delete_all(s)
    \/ \E s \in Sessions : inspect_collection(s)
    \/ OldNote_insert

Spec == Init /\ [][Next]_vars

\* the single-document operations and the inspection, called without a session
NextDocument ==
    \/ init_collection
    \/ \E t \in Titles : Document_init(t)
    \/ \E i \in Slots, s \in Unbound : insert(i, s)
    \/ \E id \in Ids \cup {NoId}, s \in Unbound : get(id, s)
    \/ \E i \in Slots, s \in Unbound : replace(i, s)
    \/ \E i \in Slots, mod \in Mods, s \in Unbound : update(i, mod, s)
    \/ update_sync
    \/ \E i \in Slots, s \in Unbound : delete(i, s)
    \/ \E s \in Unbound : delete_all(s)
    \/ \E s \in Unbound : inspect_collection(s)
    \/ OldNote_insert

SpecDocument == Init /\ [][NextDocument]_vars

\* replace_many and the operations that run between its store calls,
\* called without a session
NextReplaceMany ==
    \/ init_collection
    \/ \E t \in Titles : Document_init(t)
    \/ \E i \in Slots, s \in Unbound : insert(i, s)
    \/ \E id \in Ids \cup {NoId}, s \in Unbound : get(id, s)
    \/ \E ds \in Batches, s \in Unbound : replace_many_count(ds, s)
    \/ replace_many_delete
    \/ replace_many_insert
    \/ \E i \in Slots, s \in Unbound : delete(i, s)

SpecReplaceMany == Init /\ [][NextReplaceMany]_vars

\* the aggregation query object
NextAggregation ==
    \/ init_collection
    \/ \E fq \in Filters, p \in SeqsUpTo(Stages, MaxStages), m \in Models :
          AggregationQuery_init(fq, p, m)
    \/ \E s \in Sessions : set_session(s)
    \/ \E p \in SeqsUpTo(Stages, MaxStages), m \in Models, s \in Sessions :
          aggregate(p, m, s)
    \/ motor_cursor

SpecAggregation == Init /\ [][NextAggregation]_vars

\* the constructor's field values, `title` left out included
Values == Titles \cup {Missing}

\* the lists handed to insert_many, the empty one included
Lists == SeqsUpTo(Slots, MaxBatch)

\* the operations that look the collection up themselves, from the start of
\* the application on: before and after init_collection
NextRegistration ==
    \/ init_collection
    \/ \E t \in Values : Document_init(t)
    \/ \E i \in Slots, s \in Unbound : insert(i, s)
    \/ \E ds \in Lists, s \in Unbound : insert_many(ds, s)
    \/ \E s \in Unbound : inspect_collection(s)
    \/ \E stage \in Stages, m \in Models, s \in Unbound : aggregate(<<stage>>, m, s)
    \/ motor_cursor

SpecRegistration == Init /\ [][NextRegistration]_vars

\* the array operators: construction and rendering
NextOperators ==
    \/ \E f \in Fields, v \in SeqsUpTo(Results, MaxValues) : All(f, v)
    \/ \E f \in Fields, e \in Expressions : ElemMatch(f, e)
    \/ \E f \in Fields, n \in 0..MaxNum : Size(f, n)
    \/ render
    \/ \E item \in Fields : __getitem__(item)

SpecOperators == Init /\ [][NextOperators]_vars

\* ================================================================ claims

\* C1: insert() on an instance whose id is unset succeeds, adds exactly one
\* record and assigns a store-generated, non-null id; insert() on an instance
\* whose id is set is rejected with DocumentAlreadyCreated; an id, once set,
\* stays, so no instance ever has a second record created for it.
C1_InsertOnce ==
    [][ /\ last'.op = "insert" =>
              IF last'.ids[1] = NoId
              THEN /\ last'.outcome = "ok"
                   /\ Len(store') = Len(store) + 1
                   /\ SubSeq(store', 1, Len(store)) = store
                   /\ store'[Len(store')]._id \notin StoreIds(store) \cup {NoId}
                   /\ \E i \in Slots :
                         /\ inst[i].live /\ inst[i].id = NoId
                         /\ inst' = [inst EXCEPT ![i].id = store'[Len(store')]._id]
              ELSE /\ last'.outcome = "DocumentAlreadyCreated"
                   /\ store' = store
        /\ \A i \in Slots :
              (inst[i].live /\ inst[i].id # NoId) => inst'[i].id = inst[i].id
      ]_vars

\* a second insert() on an instance was rejected, its record being stored once
C1_Witness ==
    /\ last.op = "insert"
    /\ last.outcome = "DocumentAlreadyCreated"
    /\ \E i \in Slots :
          /\ inst[i].id # NoId
          /\ Cardinality({k \in 1..Len(store) : store[k]._id = inst[i].id}) = 1

\* C4: insert() with the id set raises DocumentAlreadyCreated and replace()
\* with the id unset raises DocumentWasNotSaved, before any store call is
\* issued; the store and the instances are as they were.
C4_RejectedBeforeAnyStoreCall ==
    [][ /\ (last'.op = "insert" /\ last'.ids[1] # NoId) =>
              /\ last'.outcome = "DocumentAlreadyCreated"
              /\ last'.calls = <<>>
              /\ store' = store
              /\ inst' = inst
        /\ (last'.op = "replace" /\ last'.ids[1] = NoId) =>
              /\ last'.outcome = "DocumentWasNotSaved"
              /\ last'.calls = <<>>
              /\ store' = store
              /\ inst' = inst
      ]_vars

\* replace() was rejected on an instance never saved, the store holding records
C4_Witness ==
    /\ last.op = "replace"
    /\ last.outcome = "DocumentWasNotSaved"
    /\ store # <<>>
    /\ \E i \in Slots : inst[i].live /\ inst[i].id = NoId

\* some supplied identity is not stored (an unset id is stored nowhere)
SomeAbsent(ds) == \E k \in 1..Len(ds) : inst[ds[k]].id \notin StoreIds(store)

\* the step taken is replace_many's first: ids_list, the existence count and
\* the comparison of lines 303-307, on the identities last'.ids
CountStep ==
    /\ rm.pc = "idle"
    /\ last'.op \in {"replace_many", "replace_many:count"}

\* C2: replace_many with a supplied identity absent from the store raises
\* ReplaceError and leaves the store as it was; the call ends there, with the
\* existence count as its only store call: no delete, no insert.
C2_RejectedWholesale ==
    [][ (CountStep /\ \E k \in 1..Len(last'.ids) : last'.ids[k] \notin StoreIds(store))
            => /\ last'.op = "replace_many"
               /\ last'.outcome = "ReplaceError"
               /\ store' = store
               /\ rm'.pc = "idle"
               /\ \A k \in 1..Len(last'.calls) :
                     last'.calls[k].call \notin {"delete_many", "insert_many"}
      ]_vars

\* a batch naming a stored and an absent identity was rejected
C2_Witness ==
    /\ last.op = "replace_many"
    /\ last.outcome = "ReplaceError"
    /\ \E k \in 1..Len(last.ids) : last.ids[k] \in StoreIds(store)
    /\ \E k \in 1..Len(last.ids) : last.ids[k] \notin StoreIds(store)

\* C3 as stated: whenever every supplied identity is stored (the list may
\* name an identity more than once) replace_many is not rejected, and when
\* its delete and insert follow with nothing in between, the store holds the
\* identities it held, the supplied ones with the supplied content, the other
\* records untouched.
C3_NotRejectedWhenAllExist ==
    [][ /\ \A ds \in Batches, s \in Sessions :
              (replace_many_count(ds, s) /\ ~SomeAbsent(ds)) =>
                  /\ last'.outcome # "ReplaceError"
                  /\ rm'.pc = "delete"
        /\ (replace_many_insert /\ last.op = "replace_many:delete"
                /\ rm.deleted = Len(rm.ids_list)) =>
              /\ last'.outcome = "ok"
              /\ StoreIds(store') = StoreIds(store) \cup Range(rm.ids_list)
              /\ \A k \in 1..Len(rm.docs) :
                    Lookup(store', rm.ids_list[k]).title = inst[rm.docs[k]].title
              /\ \A k \in 1..Len(store) : Lookup(store', store[k]._id) = store[k]
      ]_vars

\* C8: replace_many is three store calls in three steps: the count changes
\* nothing, the delete removes the matched records and inserts none, the
\* insert comes last; between the delete and the insert the supplied
\* identities are absent from the store for any operation that runs then.
C8_NotAtomic ==
    [][ /\ (CountStep /\ rm'.pc # "idle") =>
              /\ store' = store
              /\ rm'.pc = "delete"
              /\ Len(rm'.calls) = 1
        /\ replace_many_delete =>
              /\ StoreIds(store') = StoreIds(store) \ Range(rm.ids_list)
              /\ Len(rm'.calls) = 2
              /\ rm'.pc = "insert"
        /\ replace_many_insert =>
              /\ Len(last'.calls) = 3
              /\ [k \in 1..3 |-> last'.calls[k].call]
                    = <<"count_documents", "delete_many", "insert_many">>
        /\ rm.pc = "insert" => Range(rm.ids_list) \cap StoreIds(store) = {}
      ]_vars

\* between the delete and the insert a get() of a supplied identity found
\* nothing, and the delete had removed fewer records than the count had
\* found: another delete() landed between the count and the delete
C8_Witness ==
    /\ rm.pc = "insert"
    /\ last.op = "get"
    /\ last.outcome = "None"
    /\ last.ids[1] \in Range(rm.ids_list)
    /\ rm.deleted < Len(rm.ids_list)

\* C5 as stated: every store call issued on behalf of an operation invoked
\* with session s carries s.
C5_SessionOnEveryCall ==
    \A k \in 1..Len(last.calls) : last.calls[k].session = last.session

\* C6: when update() returns, the instance's fields are those of the stored
\* record of its id, so that a get() of that id issued next returns an entity
\* equal to the instance; the store call of update() itself changes no field
\* of the instance.
C6_UpdateResync ==
    [][ /\ (update_sync /\ last'.outcome = "ok") =>
              LET e == inst'[up.inst]
              IN  /\ e.id \in StoreIds(store')
                  /\ Lookup(store', e.id) = [_id |-> e.id, title |-> e.title]
                  /\ find_one(store', e.id) = [outcome |-> "ok", entity |-> e]
        /\ last'.op = "update:update_one" => inst' = inst
      ]_vars

\* update() returned on an instance that holds the fields of its stored
\* record, the store holding other records too
C6_Witness ==
    /\ last.op = "update"
    /\ last.outcome = "ok"
    /\ Len(store) >= 2
    /\ \E i \in Slots :
          /\ inst[i].id \in StoreIds(store)
          /\ Lookup(store, inst[i].id).title = inst[i].title

\* C7: a get() of the id that the insert() just before it assigned returns an
\* entity with that id and the fields of the inserted instance; a get() of an
\* id that is not stored returns None.
C7_InsertGetRoundTrip ==
    [][ (last'.op = "get" /\ ~NotInitialized) =>
            LET id == last'.ids[1]
            IN  /\ (last.op = "insert" /\ last.outcome = "ok" /\ id = nextId - 1) =>
                      /\ last'.outcome = "ok"
                      /\ last'.entity.id = id
                      /\ \E i \in Slots :
                            /\ inst[i].id = id
                            /\ last'.entity.title = inst[i].title
                /\ id \notin StoreIds(store) =>
                      /\ last'.outcome = "None"
                      /\ last'.entity = NoEntity
      ]_vars

\* a get() returned the record inserted last, with the fields of its instance
C7_Witness ==
    /\ last.op = "get"
    /\ last.outcome = "ok"
    /\ last.entity.id = nextId - 1
    /\ \E i \in Slots : inst[i].id = last.entity.id /\ inst[i].title = last.entity.title

\* the places of the stored records that fail validation
Violating(st) == {k \in 1..Len(st) : st[k].title \notin Titles}

\* C9: inspect_collection() changes no record and raises no validation
\* failure; its status is FAIL exactly when some stored record violates the
\* schema, and its errors are the violating records' ids, one each, in scan
\* order.
C9_InspectCollection ==
    [][ (last'.op = "inspect_collection" /\ ~NotInitialized) =>
            LET r == last'.inspection
                bad == Violating(store)
            IN  /\ store' = store
                /\ last'.outcome = "ok"
                /\ r.status = IF bad = {} THEN "OK" ELSE "FAIL"
                /\ Len(r.errors) = Cardinality(bad)
                /\ \E f \in [1..Len(r.errors) -> bad] :
                      /\ \A j \in 1..Len(r.errors) : r.errors[j] = store[f[j]]._id
                      /\ \A j, k \in 1..Len(r.errors) : j < k => f[j] < f[k]
      ]_vars

\* one violating record among conforming ones: FAIL with that record's id
C9_Witness ==
    /\ last.op = "inspect_collection"
    /\ last.inspection.status = "FAIL"
    /\ Len(last.inspection.errors) = 1
    /\ Len(store) >= 2
    /\ \E k \in 1..Len(store) :
          store[k].title = Missing /\ store[k]._id = last.inspection.errors[1]

\* C10: the pipeline sent is the $match stage of the filter when the filter
\* is non-empty, then the caller's stages as given, then the $project stage
\* of the result schema when one was given; with neither, the caller's
\* pipeline.
C10_PipelineSent ==
    agg.executed =>
        LET p == agg.aggregation_pipeline
            m == IF agg.find_query # {} THEN 1 ELSE 0
            j == IF agg.projection_model # NoModel THEN 1 ELSE 0
        IN  /\ Len(agg.sent) = m + Len(p) + j
            /\ m = 1 => agg.sent[1] = [stage |-> "$match", arg |-> agg.find_query]
            /\ \A k \in 1..Len(p) : agg.sent[m + k] = p[k]
            /\ j = 1 => /\ agg.sent[Len(agg.sent)].stage = "$project"
                        /\ agg.sent[Len(agg.sent)].arg
                              = get_projection(agg.projection_model)
            /\ (m = 0 /\ j = 0) => agg.sent = p

\* a filtered query with a result schema and two different stages was sent
C10_Witness ==
    /\ agg.executed
    /\ agg.find_query # {}
    /\ agg.projection_model # NoModel
    /\ Len(agg.aggregation_pipeline) = 2
    /\ agg.aggregation_pipeline[1] # agg.aggregation_pipeline[2]
    /\ Len(agg.sent) = 4

\* C11 as stated: constructing an entity, insert, insert_many,
\* inspect_collection and executing an aggregation, issued before
\* init_collection has set CollectionMeta, are each rejected with
\* CollectionWasNotInitialized and issue no store call.
C11_RejectedBeforeRegistration ==
    (/\ CollectionMeta = "None"
     /\ last.op \in {"__init__", "insert", "insert_many",
                     "inspect_collection", "motor_cursor"})
        => /\ last.outcome = "CollectionWasNotInitialized"
           /\ last.calls = <<>>

\* C11, amended: before init_collection has set CollectionMeta, insert_many,
\* inspect_collection and executing an aggregation are rejected with
\* CollectionWasNotInitialized, and so are constructing an entity from values
\* that validate (values that do not are rejected with ValidationError first)
\* and insert on an entity whose id is unset (one whose id is set is rejected
\* with DocumentAlreadyCreated first); none of them issues a store call: no
\* record is stored, no pipeline is sent and no instance comes to exist;
\* CollectionWasNotInitialized is raised in no other situation.
C11_RejectedBeforeRegistrationOnceValid ==
    /\ CollectionMeta = "None" =>
          /\ last.calls = <<>>
          /\ store = <<>>
          /\ nextId = 1
          /\ \A i \in Slots : ~inst[i].live
          /\ ~agg.executed
          /\ agg.sent = <<>>
          /\ last.op \in {"insert_many", "inspect_collection", "motor_cursor"}
                => last.outcome = "CollectionWasNotInitialized"
          /\ last.op = "insert" =>
                last.outcome = IF last.ids[1] = NoId
                               THEN "CollectionWasNotInitialized"
                               ELSE "DocumentAlreadyCreated"
          /\ last.op = "__init__" =>
                last.outcome = IF last.entity.title \in Titles
                               THEN "CollectionWasNotInitialized"
                               ELSE "ValidationError"
    /\ last.outcome = "CollectionWasNotInitialized" => CollectionMeta = "None"

\* before init_collection, Note(title=...) with a valid title was rejected
\* with CollectionWasNotInitialized, an aggregation having been built
C11_Witness ==
    /\ CollectionMeta = "None"
    /\ last.op = "__init__"
    /\ last.outcome = "CollectionWasNotInitialized"
    /\ last.entity.title \in Titles
    /\ agg.built

\* C12: every evaluation of an operator's query returns exactly
\* {field: {"$all": values}} for All, {field: {"$elemMatch": expression}} for
\* ElemMatch and {field: {"$size": num}} for Size: one key, the field path,
\* mapped to one key, the operator's name, mapped to the operand as given;
\* it equals every fragment the same operator returned before and leaves
\* the operator's attributes as they were.
C12_RendersExactly ==
    [][ last'.op \in {"query", "__getitem__"} =>
            LET q == fragments'[Len(fragments')]
                f == operator.field
            IN  /\ operator' = operator
                /\ Len(fragments') = Len(fragments) + 1
                /\ DOMAIN q = {f}
                /\ CASE operator.cls = "All" ->
                            /\ DOMAIN q[f] = {"$all"}
                            /\ q[f]["$all"] = operator.values
                     [] operator.cls = "ElemMatch" ->
                            /\ DOMAIN q[f] = {"$elemMatch"}
                            /\ q[f]["$elemMatch"] = operator.expression
                     [] operator.cls = "Size" ->
                            /\ DOMAIN q[f] = {"$size"}
                            /\ q[f]["$size"] = operator.num
                /\ \A k \in 1..Len(fragments) : fragments[k] = q
      ]_vars

\* All(field, [80, 85]) was rendered twice
C12_Witness ==
    /\ operator.cls = "All"
    /\ operator.values = <<80, 85>>
    /\ Len(fragments) = 2
    /\ fragments[1] = fragments[2]
    /\ fragments[2][operator.field]["$all"] = <<80, 85>>

====
